---- MODULE Spec2Model ----
(***************************************************************************)
(* Post-flight telemetry dashboards: column classification, slider-driven  *)
(* scrub cursor and timer playback, as implemented by the dashboard        *)
(* variants V3, V5b, V9 (the V7..V12b family) and the "Full" dashboard     *)
(* (src/unnamed/part_000).                                                  *)
(*                                                                         *)
(* A column name is a tuple of one-character strings so that lower() and   *)
(* the `k in name` substring tests of the code are computed, not assumed.  *)
(***************************************************************************)
EXTENDS Integers, Sequences, FiniteSets, TLC

VARIABLES variant, crashed, data, slider, timerActive, roles, timeRows,
          variable_list, current_ax, cards, gps, cursor_line, dots, gauges,
          telemetry, categories, notes, lastOp, hist,
          series, phases, att, hud

vars == <<variant, crashed, data, slider, timerActive, roles, timeRows,
          variable_list, current_ax, cards, gps, cursor_line, dots, gauges,
          telemetry, categories, notes, lastOp, hist,
          series, phases, att, hud>>

\* ------------------------------------------------------------------------
\* Bounds
\* ------------------------------------------------------------------------
\* largest row count of a loaded table
MaxRows == 3

\* ------------------------------------------------------------------------
\* Strings as character tuples; str.lower() and the `in` substring test
\* ------------------------------------------------------------------------
Upper == <<"A","B","C","D","E","F","G","H","I","J","K","L","M",
           "N","O","P","Q","R","S","T","U","V","W","X","Y","Z">>
LowerOf == <<"a","b","c","d","e","f","g","h","i","j","k","l","m",
             "n","o","p","q","r","s","t","u","v","w","x","y","z">>

LowerChar(ch) ==
    IF \E i \in 1..Len(Upper) : Upper[i] = ch
    THEN LowerOf[CHOOSE i \in 1..Len(Upper) : Upper[i] = ch]
    ELSE ch

\* c.lower()
Lower(s) == [i \in 1..Len(s) |-> LowerChar(s[i])]

\* k in name
Contains(k, s) ==
    \E off \in 0..(Len(s) - Len(k)) :
        \A j \in 1..Len(k) : s[off + j] = k[j]

\* any(k in name for k in ks)
ContainsAny(ks, s) == \E k \in ks : Contains(k, s)

\* keywords of the classifiers
kTime     == <<"t","i","m","e">>
kT        == <<"t">>
kAlt      == <<"a","l","t">>
kHeight   == <<"h","e","i","g","h","t">>
kVel      == <<"v","e","l">>
kSpeed    == <<"s","p","e","e","d">>
kYaw      == <<"y","a","w">>
kPitch    == <<"p","i","t","c","h">>
kRoll     == <<"r","o","l","l">>
kSet      == <<"s","e","t">>
kSp       == <<"s","p">>
kServo    == <<"s","e","r","v","o">>
kPos      == <<"p","o","s">>
kFin      == <<"f","i","n">>
kSetpoint == <<"s","e","t","p","o","i","n","t">>
kTarget   == <<"t","a","r","g","e","t">>
kApogee   == <<"a","p","o","g","e","e">>
kStatus   == <<"s","t","a","t","u","s">>
kMpu      == <<"m","p","u">>
kBmp      == <<"b","m","p">>
kAccel    == <<"a","c","c","e","l">>
kAcc      == <<"a","c","c">>
kX        == <<"x">>
kY        == <<"y">>
kZ        == <<"z">>
kLat      == <<"l","a","t">>
kLon      == <<"l","o","n">>

\* column names of the input tables
cTimeS    == <<"T","i","m","e","(","s",")">>
cTimeMs   == <<"t","i","m","e","_","m","s">>
cAltM     == <<"A","l","t","_","m">>
cVelX     == <<"V","e","l","o","c","i","t","y","X">>
cYawSet   == <<"y","a","w","_","s","e","t","p","o","i","n","t">>
cRollDeg  == <<"R","o","l","l","_","d","e","g">>
cYaw      == <<"Y","a","w">>
cLat      == <<"L","a","t">>
cLon      == <<"L","o","n">>
cVelAccX  == <<"V","e","l","_","A","c","c","X">>
cSpeed    == <<"S","p","e","e","d">>

\* "no column" (Python None) and "no row shown"
None == <<>>
NoRow == -1

\* column lists of the input tables (all columns numeric)
ColumnLists ==
    { <<cTimeS, cAltM, cVelX, cYawSet, cRollDeg>>,
      <<cTimeS, cAltM>>,
      <<cTimeS, cAltM, cLat, cLon>>,
      <<cTimeS, cAltM, cTimeMs>>,
      <<cAltM, cVelX>>,
      <<cTimeS, cAltM, cRollDeg>>,
      <<cTimeS, cAltM, cVelX>>,
      <<cTimeS, cAltM, cYaw, cYawSet>>,
      <<cTimeS, cVelAccX>> }

\* column lists with a speed channel, for the classification on its own
ClassifyColumnLists ==
    { <<cTimeS, cSpeed>>,
      <<cTimeS, cVelX>>,
      <<cTimeS, cAltM, cSpeed>>,
      <<cTimeS, cVelX, cYawSet>> }

ColumnNames ==
    UNION { {cols[i] : i \in 1..Len(cols)} :
              cols \in ColumnLists \cup ClassifyColumnLists }

\* a loaded table: its ordered column names and its row count
Tables == [cols : ColumnLists, rows : 0..MaxRows]

NoData == [cols |-> <<>>, rows |-> -1]

HasCol(t, c) == \E i \in 1..Len(t.cols) : t.cols[i] = c

\* ------------------------------------------------------------------------
\* Column classification
\* ------------------------------------------------------------------------
NoRoles == [time |-> None, alt |-> None, vel |-> None, yaw |-> None,
            yaw_sp |-> None, servo |-> None,
            accx |-> None, accy |-> None, accz |-> None]

\* Full dashboard, load_csv: the if/elif chain taken by one column
FullBranch(low) ==
    IF Contains(kTime, low) THEN "time"
    ELSE IF Contains(kAlt, low) THEN "alt"
    ELSE IF Contains(kVel, low) THEN "vel"
    ELSE IF Contains(kYaw, low) /\ ~Contains(kSet, low) /\ ~Contains(kSp, low)
         THEN "yaw"
    ELSE IF Contains(kSet, low) \/ Contains(kSp, low) THEN "yaw_sp"
    ELSE IF Contains(kServo, low) \/ Contains(kPos, low) THEN "servo"
    ELSE "none"

\* Full dashboard, load_csv: the separate acceleration if
FullAccAxis(low) ==
    IF Contains(kAccel, low) \/ Contains(kAcc, low)
    THEN IF Contains(kX, low) THEN "accx"
         ELSE IF Contains(kY, low) THEN "accy"
         ELSE IF Contains(kZ, low) THEN "accz"
         ELSE "none"
    ELSE "none"

\* the two tests above for every column name of the input tables
FullBranchOf == [c \in ColumnNames |-> FullBranch(Lower(c))]
FullAccAxisOf == [c \in ColumnNames |-> FullAccAxis(Lower(c))]

SetRole(r, role, c) ==
    IF role = "none" THEN r ELSE [r EXCEPT ![role] = c]

\* Full dashboard, load_csv: one iteration of `for c in self.data.columns`;
\* st is [roles, items]: the self.*_col attributes and the variable_list
FullLoopStep(st, c) ==
    LET r1  == SetRole(st.roles, FullBranchOf[c], c)
        r2  == SetRole(r1, FullAccAxisOf[c], c)
    IN [roles |-> r2,
        items |-> IF c # r2.time THEN Append(st.items, c) ELSE st.items]

RECURSIVE FullLoop(_, _, _)
FullLoop(st, cols, i) ==
    IF i > Len(cols) THEN st
    ELSE FullLoop(FullLoopStep(st, cols[i]), cols, i + 1)

\* the role attributes and variable_list after load_csv's loop; the
\* attributes start from their values before the load
FullClassify(oldRoles, cols) ==
    FullLoop([roles |-> oldRoles, items |-> <<>>], cols, 1)

\* V9 detect(keywords): the first column, in table order, whose lower-cased
\* name contains one of the keywords; None when there is none
V9Detect(keywords, cols) ==
    IF \E i \in 1..Len(cols) : ContainsAny(keywords, Lower(cols[i]))
    THEN cols[CHOOSE i \in 1..Len(cols) :
                 /\ ContainsAny(keywords, Lower(cols[i]))
                 /\ \A j \in 1..(i - 1) : ~ContainsAny(keywords, Lower(cols[j]))]
    ELSE None

\* load_csv's four detect calls for every column list of the input tables
V9DetectOf ==
    [cols \in ColumnLists |->
        [time |-> V9Detect({kTime}, cols), alt |-> V9Detect({kAlt}, cols),
         lat |-> V9Detect({kLat}, cols), lon |-> V9Detect({kLon}, cols)]]

\* V5b detect_columns: the two tests made on one column
V5bIsTime(c) == Contains(kTime, Lower(c))
V5bIsAlt(c) == Contains(kAlt, Lower(c)) \/ Contains(kHeight, Lower(c))

V5bIsTimeOf == [c \in ColumnNames |-> V5bIsTime(c)]
V5bIsAltOf == [c \in ColumnNames |-> V5bIsAlt(c)]

\* V5b detect_columns: both attributes reset, then the last match wins
RECURSIVE V5bLoop(_, _, _)
V5bLoop(r, cols, i) ==
    IF i > Len(cols) THEN r
    ELSE LET r1  == IF V5bIsTimeOf[cols[i]]
                    THEN [r EXCEPT !.time = cols[i]] ELSE r
             r2  == IF V5bIsAltOf[cols[i]]
                    THEN [r1 EXCEPT !.alt = cols[i]] ELSE r1
         IN V5bLoop(r2, cols, i + 1)

V5bDetectColumns(cols) == V5bLoop(NoRoles, cols, 1)

\* V3 detect_columns: the category of one column (first matching branch)
V3Category(c) ==
    LET name == Lower(c) IN
    IF Contains(kTime, name) \/ name = kT THEN "Time"
    ELSE IF Contains(kAlt, name) \/ Contains(kHeight, name) THEN "Altitude"
    ELSE IF Contains(kVel, name) \/ Contains(kSpeed, name) THEN "Velocity"
    ELSE IF Contains(kYaw, name) \/ Contains(kPitch, name) \/ Contains(kRoll, name)
         THEN "Orientation"
    ELSE IF Contains(kServo, name) \/ Contains(kFin, name) THEN "Control"
    ELSE IF Contains(kSetpoint, name) \/ Contains(kTarget, name) THEN "Setpoint"
    ELSE IF Contains(kApogee, name) THEN "Apogee"
    ELSE IF Contains(kStatus, name) \/ Contains(kMpu, name) \/ Contains(kBmp, name)
         THEN "Status"
    ELSE "Other"

V3CategoryOf == [c \in ColumnNames |-> V3Category(c)]

V3Categories == {"Time", "Altitude", "Velocity", "Orientation", "Control",
                 "Setpoint", "Apogee", "Status", "Other"}

NoCategories == [k \in V3Categories |-> <<>>]

\* V3 detect_columns: categories[...] lists and self.time_column; the
\* time column is the last match and is not reset between loads
RECURSIVE V3Loop(_, _, _)
V3Loop(st, cols, i) ==
    IF i > Len(cols) THEN st
    ELSE LET k == V3CategoryOf[cols[i]]
         IN V3Loop([cats |-> [st.cats EXCEPT ![k] = Append(@, cols[i])],
                    time |-> IF k = "Time" THEN cols[i] ELSE st.time],
                   cols, i + 1)

V3DetectColumns(oldTime, cols) ==
    V3Loop([cats |-> NoCategories, time |-> oldTime], cols, 1)

\* ------------------------------------------------------------------------
\* QSlider: range, value, clamping and the valueChanged signal
\* ------------------------------------------------------------------------
\* QSlider() starts with the range 0..99 and value 0
SliderDefaultMax == 99

Min2(a, b) == IF a < b THEN a ELSE b
Max2(a, b) == IF a > b THEN a ELSE b

NewSlider(enabled) ==
    [min |-> 0, max |-> SliderDefaultMax, value |-> 0, enabled |-> enabled]

\* slider.setValue(v): v is bounded into [min, max]
SliderSetValue(s, v) ==
    [s EXCEPT !.value = Max2(s.min, Min2(s.max, v))]

\* slider.setRange(lo, hi): the maximum is at least lo; the value is
\* re-bounded into the new range
SliderSetRange(s, lo, hi) ==
    SliderSetValue([s EXCEPT !.min = lo, !.max = Max2(lo, hi)], s.value)

\* slider.setMaximum(m)
SliderSetMaximum(s, m) == SliderSetRange(s, Min2(s.min, m), m)

\* slider.setMinimum(m)
SliderSetMinimum(s, m) == SliderSetRange(s, m, Max2(s.max, m))

\* valueChanged is emitted exactly when the value differs afterwards
Emits(s, s2) == s2.value # s.value

\* ------------------------------------------------------------------------
\* Views and notifications
\* ------------------------------------------------------------------------
NoGps == [rows |-> -1, row |-> NoRow]
NoGauges == [alt |-> NoRow, vel |-> NoRow, servo |-> NoRow,
             yaw |-> NoRow, yaw_sp |-> NoRow]

\* arr[i] on an array of n elements: Python accepts -n <= i < n
InRange(i, n) == -n <= i /\ i < n
RowOf(i, n) == IF i < 0 THEN n + i ELSE i

\* one invocation of the slot connected to slider.valueChanged:
\* the index it was called with, whether an update inside it raised,
\* how many views that were due after the failing one were not updated,
\* and whether the failure reached the caller
Note(i, failed, missed, reported) ==
    [index |-> i, failed |-> failed, missed |-> missed, reported |-> reported]

Playing == timerActive
Index == slider.value
Loaded == data # NoData /\ ~crashed
RowCount == data.rows

NoHist == [ticks |-> -1, prevIndex |-> 0, prevPlaying |-> FALSE]

\* history of the step being taken: index and playback state before it, and
\* the number of timer ticks since play() was pressed while Stopped at index
\* 0 with a table loaded (-1 when the run was interrupted or never started)
HistAfter(op) ==
    [ticks |-> IF op = "play"
               THEN (IF Loaded /\ ~timerActive /\ slider.value = 0 THEN 0 ELSE -1)
               ELSE IF op = "tick" /\ hist.ticks >= 0 /\ hist.ticks < MaxRows + 1
               THEN hist.ticks + 1
               ELSE -1,
     prevIndex |-> IF op \in {"load", "seek", "plot"} THEN slider.value ELSE 0,
     prevPlaying |-> IF op \in {"load", "seek", "plot"} THEN timerActive ELSE FALSE]

\* ------------------------------------------------------------------------
\* V9 (same playback code in V7, V8, V10, V11, V12b)
\* ------------------------------------------------------------------------
RECURSIVE V9CardsUpdated(_, _, _)
\* for c in self.cards: c.update_cursor(t, index), stopping at the first
\* card whose data[index] raises
V9CardsUpdated(cs, index, k) ==
    IF k > Len(cs) \/ ~InRange(index, cs[k].rows) THEN cs
    ELSE V9CardsUpdated([cs EXCEPT ![k].row = RowOf(index, cs[k].rows)],
                        index, k + 1)

V9CardsFail(cs, index) == \E k \in 1..Len(cs) : ~InRange(index, cs[k].rows)

V9FirstBadCard(cs, index) ==
    CHOOSE k \in 1..Len(cs) :
        /\ ~InRange(index, cs[k].rows)
        /\ \A j \in 1..(k - 1) : InRange(index, cs[j].rows)

\* update_all(index) on the attributes tRows (len(self.time), -1 when the
\* attribute does not exist), cs (self.cards) and g (self.gps)
V9UpdateAll(index, tRows, cs, g) ==
    IF ~InRange(index, tRows)
    THEN [crash |-> TRUE, cards |-> cs, gps |-> g,
          note |-> Note(index, TRUE,
                        Len(cs) + (IF g # NoGps THEN 1 ELSE 0), TRUE)]
    ELSE IF V9CardsFail(cs, index)
    THEN [crash |-> TRUE, cards |-> V9CardsUpdated(cs, index, 1), gps |-> g,
          note |-> Note(index, TRUE,
                        Len(cs) - V9FirstBadCard(cs, index)
                        + (IF g # NoGps THEN 1 ELSE 0), TRUE)]
    ELSE IF g # NoGps /\ ~InRange(index, g.rows)
    THEN [crash |-> TRUE, cards |-> V9CardsUpdated(cs, index, 1), gps |-> g,
          note |-> Note(index, TRUE, 0, TRUE)]
    ELSE [crash |-> FALSE, cards |-> V9CardsUpdated(cs, index, 1),
          gps |-> IF g = NoGps THEN g ELSE [g EXCEPT !.row = RowOf(index, g.rows)],
          note |-> Note(index, FALSE, 0, FALSE)]

\* the attributes of the dashboard object, as one record
Cur ==
    [crashed |-> crashed, data |-> data, slider |-> slider,
     timerActive |-> timerActive, roles |-> roles, timeRows |-> timeRows,
     variable_list |-> variable_list, current_ax |-> current_ax,
     cards |-> cards, gps |-> gps, cursor_line |-> cursor_line,
     dots |-> dots, gauges |-> gauges, telemetry |-> telemetry,
     categories |-> categories]

\* the step of operation op ends in the attribute record st, having invoked
\* the valueChanged slot as listed in ns.  An exception that leaves a slot
\* uncaught aborts the process (PyQt6): the timer of a crashed process
\* fires no more
Commit(st, op, ns) ==
    /\ variant' = variant
    /\ crashed' = st.crashed
    /\ data' = st.data
    /\ slider' = st.slider
    /\ timerActive' = (st.timerActive /\ ~st.crashed)
    /\ roles' = st.roles
    /\ timeRows' = st.timeRows
    /\ variable_list' = st.variable_list
    /\ current_ax' = st.current_ax
    /\ cards' = st.cards
    /\ gps' = st.gps
    /\ cursor_line' = st.cursor_line
    /\ dots' = st.dots
    /\ gauges' = st.gauges
    /\ telemetry' = st.telemetry
    /\ categories' = st.categories
    /\ notes' = ns
    /\ lastOp' = op
    /\ hist' = HistAfter(op)
    /\ UNCHANGED <<series, phases, att, hud>>

\* self.slider.valueChanged.connect(self.update_all): the attribute record
\* st after the slider went from s to st.slider
V9Changed(st, s) ==
    IF Emits(s, st.slider)
    THEN LET u == V9UpdateAll(st.slider.value, st.timeRows, st.cards, st.gps)
         IN [st EXCEPT !.crashed = u.crash, !.cards = u.cards, !.gps = u.gps]
    ELSE st

V9Notes(st, s) ==
    IF Emits(s, st.slider)
    THEN <<V9UpdateAll(st.slider.value, st.timeRows, st.cards, st.gps).note>>
    ELSE <<>>

RECURSIVE V9NewCards(_, _, _, _)
\* for col in numeric.columns: skip time_col, else GraphCard(col).plot(...)
\* which puts the cursor and the dot on row 0
V9NewCards(cols, time_col, rows, i) ==
    IF i > Len(cols) THEN <<>>
    ELSE (IF cols[i] = time_col THEN <<>>
          ELSE <<[col |-> cols[i], rows |-> rows, row |-> 0]>>)
         \o V9NewCards(cols, time_col, rows, i + 1)

\* detect_phases raises unless np.gradient gets at least 2 samples
V9PhasesRaise(t) == t.rows < 2

\* load_csv
V9LoadResult(t) ==
    LET time_col == V9DetectOf[t.cols].time
        alt_col  == V9DetectOf[t.cols].alt
        lat      == V9DetectOf[t.cols].lat
        lon      == V9DetectOf[t.cols].lon
        st0      == [Cur EXCEPT !.data = t]
    IN  IF time_col = None \/ alt_col = None \/ V9PhasesRaise(t)
        THEN [st0 EXCEPT !.crashed = TRUE]
        ELSE [st0 EXCEPT
                !.cards = V9NewCards(t.cols, time_col, t.rows, 1),
                !.gps = IF lat # None /\ lon # None
                        THEN [rows |-> t.rows, row |-> 0] ELSE @,
                !.timeRows = t.rows,
                !.slider = SliderSetMaximum(@, t.rows - 1)]

V9Load(t) ==
    /\ variant = "V9" /\ ~crashed
    /\ LET st == V9LoadResult(t)
       IN Commit(V9Changed(st, slider), "load",
                 IF st.crashed THEN <<>> ELSE V9Notes(st, slider))

\* play_btn: self.timer.start(20)
V9Play ==
    /\ variant = "V9" /\ ~crashed
    /\ Commit([Cur EXCEPT !.timerActive = TRUE], "play", <<>>)

\* pause_btn: self.timer.stop
V9Pause ==
    /\ variant = "V9" /\ ~crashed
    /\ Commit([Cur EXCEPT !.timerActive = FALSE], "pause", <<>>)

\* animate with a stop test that never holds
V9AnimateNeverStops(s) == s.value + 1 > s.max + 1

\* animate: the stop test of the timer slot
V9AnimateStops(s) == s.value + 1 >= s.max

\* animate
V9Tick ==
    /\ variant = "V9" /\ ~crashed /\ timerActive
    /\ IF V9AnimateStops(slider)
       THEN Commit([Cur EXCEPT !.timerActive = FALSE], "tick", <<>>)
       ELSE LET st == [Cur EXCEPT !.slider = SliderSetValue(@, slider.value + 1)]
            IN Commit(V9Changed(st, slider), "tick", V9Notes(st, slider))

\* the operator moves the slider to i
V9Seek(i) ==
    /\ variant = "V9" /\ ~crashed
    /\ LET st == [Cur EXCEPT !.slider = SliderSetValue(@, i)]
       IN Commit(V9Changed(st, slider), "seek", V9Notes(st, slider))

\* values handed to seek
SeekInputs == {-5, 999} \cup (0..MaxRows)

\* ------------------------------------------------------------------------
\* Full dashboard (src/unnamed/part_000; V8b has the same playback code)
\* ------------------------------------------------------------------------
\* largest number of channels selected for one plot
MaxSel == 1

GaugeOrder == <<"alt", "vel", "servo", "yaw", "yaw_sp">>

RECURSIVE FullDotsUpdated(_, _, _, _)
\* for c, dot in self.intersection_dots.items(): dot.set_data(.., row[c]),
\* stopping at the first c that is no column of the table (KeyError)
FullDotsUpdated(ds, t, r, k) ==
    IF k > Len(ds) \/ ~HasCol(t, ds[k].col) THEN ds
    ELSE FullDotsUpdated([ds EXCEPT ![k].row = r], t, r, k + 1)

FullDotsFail(ds, t) == \E k \in 1..Len(ds) : ~HasCol(t, ds[k].col)

FullFirstBadDot(ds, t) ==
    CHOOSE k \in 1..Len(ds) :
        /\ ~HasCol(t, ds[k].col)
        /\ \A j \in 1..(k - 1) : HasCol(t, ds[j].col)

RECURSIVE FullGaugesUpdated(_, _, _, _, _)
\* if self.alt_col: self.alt_gauge.set_value(row[self.alt_col], ..) and the
\* four gauges after it, stopping at the first role column missing in row
FullGaugesUpdated(g, rl, t, r, k) ==
    IF k > Len(GaugeOrder) THEN g
    ELSE LET name == GaugeOrder[k] IN
         IF rl[name] = None THEN FullGaugesUpdated(g, rl, t, r, k + 1)
         ELSE IF ~HasCol(t, rl[name]) THEN g
         ELSE FullGaugesUpdated([g EXCEPT ![name] = r], rl, t, r, k + 1)

FullBound(rl) == {k \in 1..Len(GaugeOrder) : rl[GaugeOrder[k]] # None}

FullGaugesFail(rl, t) ==
    \E k \in FullBound(rl) : ~HasCol(t, rl[GaugeOrder[k]])

FullFirstBadGauge(rl, t) ==
    CHOOSE k \in FullBound(rl) :
        /\ ~HasCol(t, rl[GaugeOrder[k]])
        /\ \A j \in FullBound(rl) : j < k => HasCol(t, rl[GaugeOrder[j]])

\* slider_moved(i) on the attribute record st: the whole body runs inside
\* try/except Exception: pass, so the first failing lookup skips everything
\* after it and nothing is reported
FullSliderMoved(st, i) ==
    LET t  == st.data
        rl == st.roles
        r  == RowOf(i, t.rows)
        nb == Cardinality(FullBound(rl))
    IN
    IF t = NoData \/ ~st.current_ax
    THEN [st |-> st, note |-> Note(i, FALSE, 0, FALSE)]
    ELSE IF ~InRange(i, t.rows) \/ ~HasCol(t, rl.time)
    THEN [st |-> st,
          note |-> Note(i, TRUE, 1 + Len(st.dots) + nb + 1, FALSE)]
    ELSE IF FullDotsFail(st.dots, t)
    THEN [st |-> [st EXCEPT !.cursor_line = r,
                            !.dots = FullDotsUpdated(@, t, r, 1)],
          note |-> Note(i, TRUE,
                        Len(st.dots) - FullFirstBadDot(st.dots, t) + nb + 1,
                        FALSE)]
    ELSE IF FullGaugesFail(rl, t)
    THEN [st |-> [st EXCEPT !.cursor_line = r,
                            !.dots = FullDotsUpdated(@, t, r, 1),
                            !.gauges = FullGaugesUpdated(@, rl, t, r, 1)],
          note |-> Note(i, TRUE,
                        Cardinality({k \in FullBound(rl) :
                                        k > FullFirstBadGauge(rl, t)}) + 1,
                        FALSE)]
    ELSE [st |-> [st EXCEPT !.cursor_line = r,
                            !.dots = FullDotsUpdated(@, t, r, 1),
                            !.gauges = FullGaugesUpdated(@, rl, t, r, 1),
                            !.telemetry = r],
          note |-> Note(i, FALSE, 0, FALSE)]

\* self.slider.valueChanged.connect(self.slider_moved)
FullChanged(st, s) ==
    IF Emits(s, st.slider) THEN FullSliderMoved(st, st.slider.value).st ELSE st

FullNotes(st, s) ==
    IF Emits(s, st.slider)
    THEN <<FullSliderMoved(st, st.slider.value).note>> ELSE <<>>

\* load_csv with the slider range set to len(self.data) instead of
\* len(self.data) - 1
FullLoadResultRangeTooLong(t) ==
    LET cls == FullClassify(roles, t.cols)
        st0 == [Cur EXCEPT !.data = t, !.roles = cls.roles,
                           !.variable_list = cls.items]
    IN  IF FullGaugesFail(cls.roles, t)
        THEN [st0 EXCEPT !.crashed = TRUE]
        ELSE [st0 EXCEPT !.slider =
                 [SliderSetRange(@, 0, t.rows) EXCEPT !.enabled = TRUE]]

\* load_csv
FullLoadResult(t) ==
    LET cls == FullClassify(roles, t.cols)
        st0 == [Cur EXCEPT !.data = t, !.roles = cls.roles,
                           !.variable_list = cls.items]
    IN  IF FullGaugesFail(cls.roles, t)
        THEN [st0 EXCEPT !.crashed = TRUE]
        ELSE [st0 EXCEPT !.slider =
                 [SliderSetRange(@, 0, t.rows - 1) EXCEPT !.enabled = TRUE]]

\* load_csv; it ends by writing the file name into the telemetry label
FullLoad(t) ==
    /\ variant = "Full" /\ ~crashed
    /\ LET st == FullLoadResult(t)
       IN Commit([FullChanged(st, slider) EXCEPT
                     !.telemetry = IF st.crashed THEN @ ELSE NoRow],
                 "load", FullNotes(st, slider))

\* toggle_playback with a timer that is not stopped
FullTogglePlaybackKeepsTicking ==
    /\ variant = "Full" /\ ~crashed
    /\ Commit([Cur EXCEPT !.timerActive = TRUE],
              IF timerActive THEN "pause" ELSE "play", <<>>)

\* toggle_playback
FullTogglePlayback ==
    /\ variant = "Full" /\ ~crashed
    /\ Commit([Cur EXCEPT !.timerActive = ~timerActive],
              IF timerActive THEN "pause" ELSE "play", <<>>)

\* step_forward: the test that advances the slider
FullStepAdvances(s) == s.value < s.max

\* step_forward advancing by two rows
FullTickSkipsRow ==
    /\ variant = "Full" /\ ~crashed /\ timerActive
    /\ IF FullStepAdvances(slider)
       THEN LET st == [Cur EXCEPT !.slider = SliderSetValue(@, slider.value + 2)]
            IN Commit(FullChanged(st, slider), "tick", FullNotes(st, slider))
       ELSE Commit([Cur EXCEPT !.timerActive = ~timerActive], "tick", <<>>)

\* step_forward
FullTick ==
    /\ variant = "Full" /\ ~crashed /\ timerActive
    /\ IF FullStepAdvances(slider)
       THEN LET st == [Cur EXCEPT !.slider = SliderSetValue(@, slider.value + 1)]
            IN Commit(FullChanged(st, slider), "tick", FullNotes(st, slider))
       ELSE Commit([Cur EXCEPT !.timerActive = ~timerActive], "tick", <<>>)

\* the operator moves the (enabled) slider to i
FullSeek(i) ==
    /\ variant = "Full" /\ ~crashed /\ slider.enabled
    /\ LET st == [Cur EXCEPT !.slider = SliderSetValue(@, i)]
       IN Commit(FullChanged(st, slider), "seek", FullNotes(st, slider))

\* the non-empty selections of at most MaxSel items of the list, in list order
Selections(items) ==
    { sel \in SUBSET (1..Len(items)) :
          Cardinality(sel) >= 1 /\ Cardinality(sel) <= MaxSel }

RECURSIVE NewDots(_, _, _)
NewDots(items, sel, i) ==
    IF i > Len(items) THEN <<>>
    ELSE (IF i \in sel THEN <<[col |-> items[i], row |-> NoRow]>> ELSE <<>>)
         \o NewDots(items, sel, i + 1)

\* plot_selected with the items sel selected: signals are blocked while the
\* figure is rebuilt, then slider_moved is called directly
FullPlot(sel) ==
    /\ variant = "Full" /\ ~crashed /\ data # NoData
    /\ sel \in Selections(variable_list)
    /\ LET st0 == [Cur EXCEPT !.current_ax = TRUE]
       IN IF ~HasCol(data, roles.time) \/ data.rows = 0
          THEN Commit([st0 EXCEPT !.crashed = TRUE], "plot", <<>>)
          ELSE LET st1 == [st0 EXCEPT !.dots = NewDots(variable_list, sel, 1),
                                      !.cursor_line = 0]
                   m   == FullSliderMoved(st1, slider.value)
               IN Commit(m.st, "plot", <<m.note>>)

\* ------------------------------------------------------------------------
\* V5b: slider and cursor line, no playback
\* ------------------------------------------------------------------------
RECURSIVE Without(_, _, _)
\* the columns other than c, in order
Without(cols, c, i) ==
    IF i > Len(cols) THEN <<>>
    ELSE (IF cols[i] = c THEN <<>> ELSE <<cols[i]>>) \o Without(cols, c, i + 1)

\* load_csv: a table without a time column is reported and leaves the
\* variable list empty
V5bLoad(t) ==
    /\ variant = "V5b" /\ ~crashed
    /\ LET r == V5bDetectColumns(t.cols)
       IN Commit([Cur EXCEPT !.data = t, !.roles = r,
                    !.variable_list = IF r.time = None THEN <<>>
                                      ELSE Without(t.cols, r.time, 1)],
                 "load", <<>>)

\* the slider reset at the end of plot_selected, done between
\* blockSignals(True) and blockSignals(False)
V5bSliderReset(s, rows) ==
    [SliderSetValue(SliderSetMaximum(SliderSetMinimum(s, 0), rows - 1), 0)
        EXCEPT !.enabled = TRUE]

\* plot_selected with a non-empty selection
V5bPlot(sel) ==
    /\ variant = "V5b" /\ ~crashed /\ data # NoData
    /\ sel \in Selections(variable_list)
    /\ LET st0 == [Cur EXCEPT !.current_ax = TRUE]
       IN IF ~HasCol(data, roles.time) \/ data.rows = 0
          THEN Commit([st0 EXCEPT !.crashed = TRUE], "plot", <<>>)
          ELSE Commit([st0 EXCEPT !.cursor_line = 0,
                                  !.slider = V5bSliderReset(@, data.rows)],
                      "plot", <<>>)

\* slider_moved(index): no try/except around the row lookups
V5bSliderMoved(st, i) ==
    IF st.data = NoData \/ ~st.current_ax
    THEN [st |-> st, note |-> Note(i, FALSE, 0, FALSE)]
    ELSE IF ~HasCol(st.data, st.roles.time) \/ ~InRange(i, st.data.rows)
    THEN [st |-> [st EXCEPT !.crashed = TRUE], note |-> Note(i, TRUE, 2, TRUE)]
    ELSE [st |-> [st EXCEPT !.cursor_line = RowOf(i, st.data.rows),
                            !.telemetry = RowOf(i, st.data.rows)],
          note |-> Note(i, FALSE, 0, FALSE)]

\* the operator moves the (enabled) slider to i
V5bSeek(i) ==
    /\ variant = "V5b" /\ ~crashed /\ slider.enabled
    /\ LET st == [Cur EXCEPT !.slider = SliderSetValue(@, i)]
       IN IF Emits(slider, st.slider)
          THEN LET m == V5bSliderMoved(st, st.slider.value)
               IN Commit(m.st, "seek", <<m.note>>)
          ELSE Commit(st, "seek", <<>>)

\* ------------------------------------------------------------------------
\* V3: adaptive column detection, static plot
\* ------------------------------------------------------------------------
V3CategoryOrder == <<"Time", "Altitude", "Velocity", "Orientation", "Control",
                     "Setpoint", "Apogee", "Status", "Other">>

RECURSIVE V3Items(_, _, _)
\* for category, cols in self.detected_categories.items(): every col that is
\* not the time column
V3Items(cats, time, k) ==
    IF k > Len(V3CategoryOrder) THEN <<>>
    ELSE Without(cats[V3CategoryOrder[k]], time, 1) \o V3Items(cats, time, k + 1)

\* load_csv: self.time_column keeps its previous value when the new table
\* has no time column
V3Load(t) ==
    /\ variant = "V3" /\ ~crashed
    /\ LET d == V3DetectColumns(roles.time, t.cols)
       IN Commit([Cur EXCEPT !.data = t, !.categories = d.cats,
                    !.roles = [@ EXCEPT !.time = d.time],
                    !.variable_list = IF d.time = None THEN <<>>
                                      ELSE V3Items(d.cats, d.time, 1)],
                 "load", <<>>)

\* plot_selected with a non-empty selection: self.data[self.time_column]
V3Plot(sel) ==
    /\ variant = "V3" /\ ~crashed /\ data # NoData
    /\ sel \in Selections(variable_list)
    /\ Commit([Cur EXCEPT !.crashed = ~HasCol(data, roles.time),
                          !.current_ax = TRUE], "plot", <<>>)

\* ------------------------------------------------------------------------
\* V9 detect_phases(time, altitude)
\* ------------------------------------------------------------------------
\* longest series handed to detect_phases
MaxSamples == 4

\* vel > 5, vel[apogee:] < -2 and altitude.min() + 2
BoostThreshold == 5
DescentThreshold == -2
LandingMargin == 2

\* altitude samples and the spacings of the (uniformly spaced) time axes:
\* increasing, constant and decreasing
AltValues == {0, 3, 20}
Steps == {1, 2, 0, -1}

Axis(n, step) == [i \in 1..n |-> step * (i - 1)]

TimeAxes == {Axis(n, step) : n \in 0..MaxSamples, step \in Steps}
Altitudes == UNION {[1..n -> AltValues] : n \in 0..MaxSamples}

\* a flight of nine samples: climb to 95 at row 4, back to the ground
ExampleAltitude == <<0, 10, 40, 90, 95, 60, 20, 2, 1>>

SeriesInputs ==
    [time : TimeAxes, altitude : Altitudes]
        \cup {[time |-> Axis(Len(ExampleAltitude), 1), altitude |-> ExampleAltitude]}

NoSeries == [time |-> <<>>, altitude |-> <<>>]

PhaseNames == {"Boost", "Coast", "Apogee", "Descent", "Landed"}

NoPhases == [status |-> "none", index |-> [p \in PhaseNames |-> -1],
             at |-> [p \in PhaseNames |-> -1]]

PhasesRaised == [NoPhases EXCEPT !.status = "raised"]

\* np.gradient(altitude, time)[i] for a uniformly spaced time axis, i counted
\* from 0, as a fraction num/den: one-sided differences at both ends,
\* (f[i+1] - f[i-1]) / (2. * dx) in between
VelNum(a, i) ==
    IF i = 0 THEN a[2] - a[1]
    ELSE IF i = Len(a) - 1 THEN a[Len(a)] - a[Len(a) - 1]
    ELSE a[i + 2] - a[i]

VelDen(t, a, i) ==
    IF i = 0 \/ i = Len(a) - 1 THEN t[2] - t[1] ELSE 2 * (t[2] - t[1])

\* num/den > k and num/den < k in floating point: a zero divisor gives
\* +inf, -inf or nan, and every comparison with nan is False
FracGt(num, den, k) ==
    IF den > 0 THEN num > k * den
    ELSE IF den < 0 THEN num < k * den
    ELSE num > 0

FracLt(num, den, k) ==
    IF den > 0 THEN num < k * den
    ELSE IF den < 0 THEN num > k * den
    ELSE num < 0

SetMin(S) == CHOOSE x \in S : \A y \in S : x <= y
SetMax(S) == CHOOSE x \in S : \A y \in S : x >= y

\* np.argmax of a boolean array given as the set of its True positions:
\* the first True position, 0 when there is none
ArgmaxTrue(S) == IF S = {} THEN 0 ELSE SetMin(S)

\* boost taken at the first row whose rate reaches the threshold
PhaseBoostAtThreshold(t, a) ==
    ArgmaxTrue({i \in 0..(Len(a) - 1) :
                   ~FracLt(VelNum(a, i), VelDen(t, a, i), BoostThreshold)})

\* the local variables of detect_phases, rows counted from 0
PhaseBoost(t, a) ==
    ArgmaxTrue({i \in 0..(Len(a) - 1) :
                   FracGt(VelNum(a, i), VelDen(t, a, i), BoostThreshold)})

\* apogee taken at the last row that holds the maximum
PhaseApogeeLast(a) ==
    SetMax({i \in 0..(Len(a) - 1) :
               a[i + 1] = SetMax({a[j] : j \in 1..Len(a)})})

PhaseApogee(a) ==
    SetMin({i \in 0..(Len(a) - 1) :
               a[i + 1] = SetMax({a[j] : j \in 1..Len(a)})})

PhaseDescent(t, a) ==
    PhaseApogee(a) +
    ArgmaxTrue({j \in 0..(Len(a) - 1 - PhaseApogee(a)) :
                   FracLt(VelNum(a, PhaseApogee(a) + j),
                          VelDen(t, a, PhaseApogee(a) + j), DescentThreshold)})

PhaseLanded(a) ==
    Len(a) - ArgmaxTrue({j \in 0..(Len(a) - 1) :
                            a[Len(a) - j] >
                              SetMin({a[k] : k \in 1..Len(a)}) + LandingMargin})

\* detect_phases: np.gradient raises for series of different lengths and for
\* fewer than 2 samples; otherwise the dict of phase times (at), with the
\* rows they were read from (index)
detect_phases(t, a) ==
    IF Len(t) # Len(a) \/ Len(a) < 2 THEN PhasesRaised
    ELSE LET idx == [p \in PhaseNames |->
                        CASE p = "Boost"   -> PhaseBoost(t, a)
                          [] p = "Coast"   -> (PhaseBoost(t, a) + PhaseApogee(a)) \div 2
                          [] p = "Apogee"  -> PhaseApogee(a)
                          [] p = "Descent" -> PhaseDescent(t, a)
                          [] p = "Landed"  -> PhaseLanded(a) - 1]
         IN [status |-> "ok", index |-> idx,
             at |-> [p \in PhaseNames |-> t[idx[p] + 1]]]

\* phases = self.detect_phases(time, altitude) on the series drawn
DetectPhases ==
    /\ phases.status = "none"
    /\ phases' = detect_phases(series.time, series.altitude)
    /\ UNCHANGED <<variant, crashed, data, slider, timerActive, roles,
                   timeRows, variable_list, current_ax, cards, gps,
                   cursor_line, dots, gauges, telemetry, categories, notes,
                   lastOp, hist, series, att, hud>>

\* ------------------------------------------------------------------------
\* Attitude indicator (V10 Rocket3D, V11 Rocket3D, V12b AttitudeViewer)
\* ------------------------------------------------------------------------
\* An angle is n * (pi/180)^k: a table value of n degrees has k = 0 and
\* every np.radians applied to it adds one factor pi/180
Degrees == {-90, 0, 90, 180, 270}

FromTable(d) == [n |-> d, k |-> 0]

\* np.radians(a)
radians(a) == [a EXCEPT !.k = @ + 1]

\* np.cos(a), np.sin(a): exact for 0 and for quarter turns converted to
\* radians once; no other argument has a value here
cos(a) ==
    CASE a.n = 0 -> 1
      [] a.n # 0 /\ a.k = 1 /\ a.n % 90 = 0 ->
            <<1, 0, -1, 0>>[((a.n \div 90) % 4) + 1]

sin(a) ==
    CASE a.n = 0 -> 0
      [] a.n # 0 /\ a.k = 1 /\ a.n % 90 = 0 ->
            <<0, 1, 0, -1>>[((a.n \div 90) % 4) + 1]

\* A @ B, np.dot(A, B) for 3x3 matrices
MatMul(A, B) ==
    [i \in 1..3 |-> [j \in 1..3 |->
        A[i][1] * B[1][j] + A[i][2] * B[2][j] + A[i][3] * B[3][j]]]

\* V10 with the factor Rx built with the sign of its upper sine dropped
rotation_matrix_MirrorRx(r0, p0, y0) ==
    LET r == radians(r0)
        p == radians(p0)
        y == radians(y0)
        Rx == << <<1, 0, 0>>,
                 <<0, cos(r), sin(r)>>,
                 <<0, sin(r), cos(r)>> >>
        Ry == << <<cos(p), 0, sin(p)>>,
                 <<0, 1, 0>>,
                 <<-sin(p), 0, cos(p)>> >>
        Rz == << <<cos(y), -sin(y), 0>>,
                 <<sin(y), cos(y), 0>>,
                 <<0, 0, 1>> >>
    IN [R |-> MatMul(MatMul(Rz, Ry), Rx), trig |-> <<r, p, y>>]

\* V10 Rocket3D.rotation_matrix(r, p, y): the matrix returned and the
\* angles it hands to np.cos / np.sin
rotation_matrix(r0, p0, y0) ==
    LET r == radians(r0)
        p == radians(p0)
        y == radians(y0)
        Rx == << <<1, 0, 0>>,
                 <<0, cos(r), -sin(r)>>,
                 <<0, sin(r), cos(r)>> >>
        Ry == << <<cos(p), 0, sin(p)>>,
                 <<0, 1, 0>>,
                 <<-sin(p), 0, cos(p)>> >>
        Rz == << <<cos(y), -sin(y), 0>>,
                 <<sin(y), cos(y), 0>>,
                 <<0, 0, 1>> >>
    IN [R |-> MatMul(MatMul(Rz, Ry), Rx), trig |-> <<r, p, y>>]

\* V11 Rocket3D.rotation(r, p, y)
rotation(r0, p0, y0) ==
    LET r == radians(r0)
        p == radians(p0)
        y == radians(y0)
        Rx == << <<1, 0, 0>>,
                 <<0, cos(r), -sin(r)>>,
                 <<0, sin(r), cos(r)>> >>
        Ry == << <<cos(p), 0, sin(p)>>,
                 <<0, 1, 0>>,
                 <<-sin(p), 0, cos(p)>> >>
        Rz == << <<cos(y), -sin(y), 0>>,
                 <<sin(y), cos(y), 0>>,
                 <<0, 0, 1>> >>
    IN [R |-> MatMul(Rz, MatMul(Ry, Rx)), trig |-> <<r, p, y>>]

\* V12b with the factors multiplied in the order Rx, Ry, Rz
updateRollLast(pitch, roll, yaw) ==
    LET Rx == << <<1, 0, 0>>,
                 <<0, cos(roll), -sin(roll)>>,
                 <<0, sin(roll), cos(roll)>> >>
        Ry == << <<cos(pitch), 0, sin(pitch)>>,
                 <<0, 1, 0>>,
                 <<-sin(pitch), 0, cos(pitch)>> >>
        Rz == << <<cos(yaw), -sin(yaw), 0>>,
                 <<sin(yaw), cos(yaw), 0>>,
                 <<0, 0, 1>> >>
    IN [R |-> MatMul(MatMul(Rx, Ry), Rz), trig |-> <<roll, pitch, yaw>>]

\* V12b AttitudeViewer.update(pitch, roll, yaw): no conversion inside
update(pitch, roll, yaw) ==
    LET Rx == << <<1, 0, 0>>,
                 <<0, cos(roll), -sin(roll)>>,
                 <<0, sin(roll), cos(roll)>> >>
        Ry == << <<cos(pitch), 0, sin(pitch)>>,
                 <<0, 1, 0>>,
                 <<-sin(pitch), 0, cos(pitch)>> >>
        Rz == << <<cos(yaw), -sin(yaw), 0>>,
                 <<sin(yaw), cos(yaw), 0>>,
                 <<0, 0, 1>> >>
    IN [R |-> MatMul(MatMul(Rz, Ry), Rx), trig |-> <<roll, pitch, yaw>>]

AttVariants == {"V10", "V11", "V12b"}

NoResult == [R |-> <<>>, trig |-> <<>>]

NoAtt == [roll |-> 0, pitch |-> 0, yaw |-> 0,
          out |-> [v \in {} |-> NoResult]]

\* the dashboard variables, which the attitude and gauge steps leave alone
dashboard == <<variant, crashed, data, slider, timerActive, roles, timeRows,
               variable_list, current_ax, cards, gps, cursor_line, dots,
               gauges, telemetry, categories, notes, lastOp, hist>>

\* V10 update_all(i): self.rocket3d.update_attitude(self.roll[i],
\* self.pitch[i], self.yaw[i]), which calls rotation_matrix(roll, pitch, yaw)
V10UpdateAttitude ==
    /\ "V10" \in DOMAIN att.out /\ att.out["V10"] = NoResult
    /\ att' = [att EXCEPT !.out["V10"] =
                  rotation_matrix(FromTable(att.roll), FromTable(att.pitch),
                                  FromTable(att.yaw))]
    /\ UNCHANGED <<dashboard, series, phases, hud>>

\* V11 update_all(i): update_attitude(roll[i], pitch[i], yaw[i]) calls
\* rotation(roll, pitch, yaw)
V11UpdateAttitude ==
    /\ "V11" \in DOMAIN att.out /\ att.out["V11"] = NoResult
    /\ att' = [att EXCEPT !.out["V11"] =
                  rotation(FromTable(att.roll), FromTable(att.pitch),
                           FromTable(att.yaw))]
    /\ UNCHANGED <<dashboard, series, phases, hud>>

\* V12b update_all: self.attitude.update(np.radians(pitch),
\* np.radians(roll), np.radians(yaw))
V12bUpdateAll ==
    /\ "V12b" \in DOMAIN att.out /\ att.out["V12b"] = NoResult
    /\ att' = [att EXCEPT !.out["V12b"] =
                  update(radians(FromTable(att.pitch)),
                         radians(FromTable(att.roll)),
                         radians(FromTable(att.yaw)))]
    /\ UNCHANGED <<dashboard, series, phases, hud>>

\* ------------------------------------------------------------------------
\* HUD gauges of the Full dashboard (src/unnamed/part_000)
\* ------------------------------------------------------------------------
\* largest number of rows of a table shown on the gauges
MaxHudRows == 2

VelValues == {-4, -1, 0, 2, 4}

\* the tables: a velocity and an altitude column of the same length
HudTables ==
    UNION { [vel : [1..n -> VelValues], alt : [1..n -> AltValues]] :
              n \in 1..MaxHudRows }

\* gauge limits are kept in thousandths: update_limits adds 0.001
PerUnit == 1000

\* QColor("#4CAF50") and QColor("#2196F3") as (red, green, blue)
AltColor == <<76, 175, 80>>
VelColor == <<33, 150, 243>>

\* HUDGauge.__init__(title, min_val=0, max_val=100, unit, color)
HUDGauge(color) ==
    [min_val |-> 0, max_val |-> 100 * PerUnit, value |-> 0,
     fill_ratio |-> [num |-> 0, den |-> 1],
     base_color |-> color, display_color |-> color]

\* HUDGauge.update_limits(min_val, max_val)
update_limits(g, lo, hi) ==
    [g EXCEPT !.min_val = lo * PerUnit,
              !.max_val = IF hi # lo THEN hi * PerUnit ELSE hi * PerUnit + 1]

\* int(p / q) for q # 0: Python truncates towards zero
IntOf(p, q) ==
    LET Abs(x) == IF x < 0 THEN -x ELSE x
    IN IF (p >= 0) = (q > 0) THEN Abs(p) \div Abs(q)
       ELSE -(Abs(p) \div Abs(q))

\* np.clip(num / den, 0, 1)
clip01(num, den) ==
    IF FracLt(num, den, 0) THEN [num |-> 0, den |-> 1]
    ELSE IF FracGt(num, den, 1) THEN [num |-> 1, den |-> 1]
    ELSE [num |-> num, den |-> den]

\* HUDGauge.set_value(val, velocity_ratio)
set_value(g, val, velocity_ratio) ==
    LET range_size == g.max_val - g.min_val
        red == g.base_color[1]
        green == g.base_color[2]
        vn == velocity_ratio.num
        vd == velocity_ratio.den
    IN [g EXCEPT !.value = val,
                 !.fill_ratio = clip01(val * PerUnit - g.min_val, range_size),
                 !.display_color =
                     <<IntOf(red * vd + (255 - red) * vn, vd),
                       IntOf(green * (vd - vn), vd),
                       g.base_color[3]>>]

NoHud == [stage |-> "none"]

Values(s) == {s[k] : k \in 1..Len(s)}

\* load_csv, HUD limit updates: each gauge gets the minimum and the maximum
\* of its column
HudLoadCsv ==
    /\ hud.stage = "new"
    /\ hud' = [hud EXCEPT
                  !.stage = "loaded",
                  !.alt_gauge = update_limits(@, SetMin(Values(hud.alt)),
                                              SetMax(Values(hud.alt))),
                  !.vel_gauge = update_limits(@, SetMin(Values(hud.vel)),
                                              SetMax(Values(hud.vel)))]
    /\ UNCHANGED <<dashboard, series, phases, att>>

\* slider_moved(i), the gauge part: v_ratio = abs(row[vel_col]) / v_max,
\* or 0 when v_max is 0, goes to the altitude and the velocity gauge
HudSliderMoved(i) ==
    /\ hud.stage \in {"loaded", "shown"}
    /\ i \in 0..(Len(hud.vel) - 1)
    /\ LET v_max == SetMax(Values(hud.vel))
           v == hud.vel[i + 1]
           v_ratio == IF v_max # 0
                      THEN [num |-> IF v < 0 THEN -v ELSE v, den |-> v_max]
                      ELSE [num |-> 0, den |-> 1]
       IN hud' = [hud EXCEPT
                     !.stage = "shown",
                     !.row = i,
                     !.v_ratio = v_ratio,
                     !.alt_gauge = set_value(@, hud.alt[i + 1], v_ratio),
                     !.vel_gauge = set_value(@, hud.vel[i + 1], v_ratio)]
    /\ UNCHANGED <<dashboard, series, phases, att>>

\* ------------------------------------------------------------------------
\* The dashboards as one state machine
\* ------------------------------------------------------------------------
Variants == {"V3", "V5b", "V9", "Full"}

Init ==
    /\ variant \in Variants
    /\ crashed = FALSE
    /\ data = NoData
    /\ slider = NewSlider(variant = "V9")
    /\ timerActive = FALSE
    /\ roles = NoRoles
    /\ timeRows = -1
    /\ variable_list = <<>>
    /\ current_ax = FALSE
    /\ cards = <<>>
    /\ gps = NoGps
    /\ cursor_line = NoRow
    /\ dots = <<>>
    /\ gauges = NoGauges
    /\ telemetry = NoRow
    /\ categories = NoCategories
    /\ notes = <<>>
    /\ lastOp = "init"
    /\ hist = NoHist
    /\ series = NoSeries
    /\ phases = NoPhases
    /\ att = NoAtt
    /\ hud = NoHud

Next ==
    \/ \E t \in Tables : V9Load(t)
    \/ V9Play
    \/ V9Pause
    \/ V9Tick
    \/ \E i \in SeekInputs : V9Seek(i)
    \/ \E t \in Tables : FullLoad(t)
    \/ FullTogglePlayback
    \/ FullTick
    \/ \E i \in SeekInputs : FullSeek(i)
    \/ \E sel \in SUBSET (1..5) : FullPlot(sel)
    \/ \E t \in Tables : V5bLoad(t)
    \/ \E sel \in SUBSET (1..5) : V5bPlot(sel)
    \/ \E i \in SeekInputs : V5bSeek(i)
    \/ \E t \in Tables : V3Load(t)
    \/ \E sel \in SUBSET (1..5) : V3Plot(sel)

Spec == Init /\ [][Next]_vars

\* Classification on its own: the dashboards with a rule chain loading
\* tables that have velocity and speed columns
ClassifyTables == [cols : ClassifyColumnLists, rows : 0..MaxRows]

ClassifyInit == Init /\ variant \in {"Full", "V3"}

ClassifyNext ==
    \/ \E t \in ClassifyTables : FullLoad(t)
    \/ \E t \in ClassifyTables : V3Load(t)

ClassifySpec == ClassifyInit /\ [][ClassifyNext]_vars

\* detect_phases applied to every pair of a time axis and an altitude series
PhaseInit ==
    /\ variant = "V9"
    /\ crashed = FALSE
    /\ data = NoData
    /\ slider = NewSlider(TRUE)
    /\ timerActive = FALSE
    /\ roles = NoRoles
    /\ timeRows = -1
    /\ variable_list = <<>>
    /\ current_ax = FALSE
    /\ cards = <<>>
    /\ gps = NoGps
    /\ cursor_line = NoRow
    /\ dots = <<>>
    /\ gauges = NoGauges
    /\ telemetry = NoRow
    /\ categories = NoCategories
    /\ notes = <<>>
    /\ lastOp = "init"
    /\ hist = NoHist
    /\ series \in SeriesInputs
    /\ phases = NoPhases
    /\ att = NoAtt
    /\ hud = NoHud

PhaseNext == DetectPhases

PhaseSpec == PhaseInit /\ [][PhaseNext]_vars

\* a dashboard just constructed, nothing loaded
Idle ==
    /\ variant = "V9"
    /\ crashed = FALSE
    /\ data = NoData
    /\ slider = NewSlider(TRUE)
    /\ timerActive = FALSE
    /\ roles = NoRoles
    /\ timeRows = -1
    /\ variable_list = <<>>
    /\ current_ax = FALSE
    /\ cards = <<>>
    /\ gps = NoGps
    /\ cursor_line = NoRow
    /\ dots = <<>>
    /\ gauges = NoGauges
    /\ telemetry = NoRow
    /\ categories = NoCategories
    /\ notes = <<>>
    /\ lastOp = "init"
    /\ hist = NoHist
    /\ series = NoSeries
    /\ phases = NoPhases

\* the three attitude indicators given one roll, pitch, yaw sample of the
\* table, in degrees
AttInit ==
    /\ Idle
    /\ hud = NoHud
    /\ att \in [roll : Degrees, pitch : Degrees, yaw : Degrees,
                out : {[v \in AttVariants |-> NoResult]}]

AttNext ==
    \/ V10UpdateAttitude
    \/ V11UpdateAttitude
    \/ V12bUpdateAll

AttSpec == AttInit /\ [][AttNext]_vars

\* the altitude and the velocity gauge over every table of HudTables
HudInit ==
    /\ Idle
    /\ att = NoAtt
    /\ hud \in [stage : {"new"}, vel : {t.vel : t \in HudTables},
                alt : {t.alt : t \in HudTables}, row : {-1},
                v_ratio : {[num |-> 0, den |-> 1]},
                alt_gauge : {HUDGauge(AltColor)},
                vel_gauge : {HUDGauge(VelColor)}]
    /\ Len(hud.vel) = Len(hud.alt)

HudNext ==
    \/ HudLoadCsv
    \/ \E i \in 0..(MaxHudRows - 1) : HudSliderMoved(i)

HudSpec == HudInit /\ [][HudNext]_vars

\* ------------------------------------------------------------------------
\* Properties
\* ------------------------------------------------------------------------
\* the variants that have a playback timer
TimelineVariant == variant \in {"V9", "Full"}

Clamp(i, lo, hi) == IF i < lo THEN lo ELSE IF i > hi THEN hi ELSE i

\* C1: with a table of n rows loaded, Stopped at index 0, play() followed by
\* n-1 ticks (nothing else in between) leaves index = n-1 and the timeline
\* Stopped, and further ticks change neither (stated here for n >= 2, where
\* at least one tick has been delivered).
C1_PlayRunsToLastRowAndStops ==
    (TimelineVariant /\ Loaded /\ RowCount >= 2 /\ hist.ticks >= RowCount - 1)
        => (Index = RowCount - 1 /\ ~Playing)

\* C2: reloading a table, from any index and from Playing or Stopped,
\* leaves index = 0 and the timeline Stopped.
C2_ReloadResetsTimeline ==
    [][(TimelineVariant /\ Loaded /\ RowCount >= 1
        /\ lastOp' = "load" /\ ~crashed' /\ data'.rows >= 1)
          => (slider'.value = 0 /\ ~timerActive')]_vars

\* the columns of t as a set
ColSet(t) == {t.cols[i] : i \in 1..Len(t.cols)}

\* C3: after a reload every column-role binding (and the views built from
\* role columns) comes from the newly loaded table only; nothing computed
\* from the previous table is still in use.
C3_ReloadLeavesNothingStale ==
    (lastOp = "load" /\ ~crashed /\ RowCount >= 1) =>
        /\ variant = "Full" =>
              \A k \in DOMAIN roles : roles[k] = None \/ roles[k] \in ColSet(data)
        /\ variant = "V9" =>
              (gps # NoGps =>
                  /\ V9DetectOf[data.cols].lat # None
                  /\ V9DetectOf[data.cols].lon # None
                  /\ gps.rows = data.rows)

\* C4: every operation that changes the scrub index delivers exactly one
\* notification carrying the new index before it returns.
C4_IndexChangeNotifiedOnce ==
    [][slider'.value # slider.value
          => (Len(notes') = 1 /\ notes'[1].index = slider'.value)]_vars

\* C5: when a view's update fails during a notification, the views after it
\* are still updated, the failure is reported to the caller, and playback
\* keeps its Playing state.
C5_ViewFailureIsolated ==
    [][\A k \in 1..Len(notes') :
          (Loaded /\ RowCount >= 1 /\ notes'[k].failed) =>
              /\ notes'[k].missed = 0
              /\ notes'[k].reported
              /\ (timerActive => timerActive')]_vars

SeekStep(i) == V9Seek(i) \/ FullSeek(i)

\* C7: seek(i), for any integer i, never fails, sets index to i clamped into
\* [0, rowCount-1] and leaves the Playing/Stopped state as it was.
C7_SeekClampsAndNeverFails ==
    [][\A i \in SeekInputs :
          (TimelineVariant /\ Loaded /\ RowCount >= 1 /\ SeekStep(i))
              => /\ ~crashed'
                 /\ slider'.value = Clamp(i, 0, RowCount - 1)
                 /\ timerActive' = timerActive]_vars

\* a timer tick of the timeline
TickStep == V9Tick \/ FullTick

\* C8: a seek issued while Playing does not pause playback, and the next
\* tick advances from the sought position: from i < rowCount-1 to i+1.
C8_TickContinuesFromSeek ==
    [][/\ \A i \in SeekInputs :
             (TimelineVariant /\ Loaded /\ Playing /\ SeekStep(i) /\ ~crashed')
                 => timerActive'
       /\ (TimelineVariant /\ Loaded /\ Playing /\ lastOp = "seek"
           /\ hist.prevPlaying /\ Index < RowCount - 1 /\ TickStep /\ ~crashed')
              => slider'.value = slider.value + 1]_vars

\* the name matches the Time rule / contains "set" or "sp"
IsTimeName(c) == Contains(kTime, Lower(c)) \/ Lower(c) = kT
IsSetName(c) == Contains(kSet, Lower(c)) \/ Contains(kSp, Lower(c))

IsTimeNameOf == [c \in ColumnNames |-> IsTimeName(c)]
IsSetNameOf == [c \in ColumnNames |-> IsSetName(c)]

\* C9: a column whose lower-cased name contains "set" or "sp" and does not
\* match the Time rule is classified as the yaw setpoint, also when the name
\* contains "yaw", "roll" or "pitch" (or any later keyword).
C9_SetpointRuleFirst ==
    (lastOp = "load" /\ ~crashed) =>
        \A c \in ColSet(data) :
            (IsSetNameOf[c] /\ ~IsTimeNameOf[c]) =>
                /\ variant = "V3" =>
                      \E k \in 1..Len(categories["Setpoint"]) :
                          categories["Setpoint"][k] = c
                /\ variant = "Full" =>
                      (FullBranchOf[c] = "yaw_sp" /\ roles.yaw # c)

\* the first column of cols, in table order, that matches the Time rule
FirstTimeColumn(cols) ==
    cols[CHOOSE i \in 1..Len(cols) :
            /\ IsTimeNameOf[cols[i]]
            /\ \A j \in 1..(i - 1) : ~IsTimeNameOf[cols[j]]]

\* C10: when several columns match the Time rule, the first in table order
\* holds Time, the later ones do not, and exactly one column holds Time.
C10_FirstTimeColumnWins ==
    (lastOp = "load" /\ ~crashed /\ \E c \in ColSet(data) : IsTimeNameOf[c]) =>
        /\ variant \in {"Full", "V5b", "V3"} =>
              roles.time = FirstTimeColumn(data.cols)
        /\ variant = "V3" => Len(categories["Time"]) = 1

\* the table has no column that matches the Time rule
NoTimeColumn(t) == \A c \in ColSet(t) : ~IsTimeNameOf[c]

\* C11: when no column of the loaded table maps to Time, loading returns an
\* error (it does not abort) and scrubbing is not available for that table:
\* no later tick or seek produces a view notification.
C11_NoTimeColumnNoScrub ==
    [][/\ (TimelineVariant /\ lastOp' = "load" /\ NoTimeColumn(data'))
             => ~crashed'
       /\ (TimelineVariant /\ data # NoData /\ NoTimeColumn(data)
           /\ lastOp' \in {"tick", "seek"})
             => notes' = <<>>]_vars

\* C12: the column-to-role result of a load depends only on the column names
\* of the table loaded, not on the tables loaded before it.
C12_ClassificationIgnoresHistory ==
    (lastOp = "load" /\ ~crashed) =>
        /\ variant = "Full" =>
              /\ roles = FullClassify(NoRoles, data.cols).roles
              /\ variable_list = FullClassify(NoRoles, data.cols).items
        /\ variant = "V5b" => roles = V5bDetectColumns(data.cols)
        /\ variant = "V3" =>
              roles.time = V3DetectColumns(None, data.cols).time

\* C13: classification gives each column of the table at most one role.
C13_OneRolePerColumn ==
    (variant = "Full" /\ lastOp = "load" /\ ~crashed) =>
        \A c \in ColSet(data) :
            Cardinality({k \in DOMAIN roles : roles[k] = c}) <= 1

NonDecreasing(t) == \A i \in 1..(Len(t) - 1) : t[i] <= t[i + 1]

\* the precondition of phase detection
ValidSeries(sr) ==
    /\ Len(sr.time) = Len(sr.altitude)
    /\ Len(sr.time) >= 2
    /\ NonDecreasing(sr.time)

\* C14: for every time/altitude series of equal length >= 2 with
\* non-decreasing time, the detected phase rows satisfy
\* Boost <= Coast <= Apogee <= Descent.
C14_PhaseOrder ==
    (phases.status # "none" /\ ValidSeries(series)) =>
        /\ phases.status = "ok"
        /\ phases.index["Boost"] <= phases.index["Coast"]
        /\ phases.index["Coast"] <= phases.index["Apogee"]
        /\ phases.index["Apogee"] <= phases.index["Descent"]

\* C15: phase detection on fewer than 2 samples, on series of different
\* lengths or on a time series that decreases somewhere gives an error and
\* no phase map.
C15_InvalidSeriesRejected ==
    (phases.status # "none" /\ ~ValidSeries(series)) => phases.status = "raised"

IsAltName(c) == Contains(kAlt, Lower(c))
IsAltNameOf == [c \in ColumnNames |-> IsAltName(c)]

\* the table has a time column and no altitude column
TimeButNoAltitude(t) ==
    /\ \E c \in ColSet(t) : IsTimeNameOf[c]
    /\ \A c \in ColSet(t) : ~IsAltNameOf[c]

\* C16: loading a table with a time column and no altitude column succeeds
\* and the timeline covers the rows of the table.
C16_NoAltitudeStillLoads ==
    (TimelineVariant /\ lastOp = "load" /\ TimeButNoAltitude(data)
     /\ data.rows >= 1)
        => (~crashed /\ slider.max = data.rows - 1 /\ Index <= data.rows - 1)

\* the table has a time column and an altitude column
TimeAndAltitude(t) ==
    /\ \E c \in ColSet(t) : IsTimeNameOf[c]
    /\ \E c \in ColSet(t) : IsAltNameOf[c]

\* C17: loading a table with zero rows (and with time and altitude columns)
\* succeeds, and afterwards no play, tick or seek changes the index or
\* notifies a view.
C17_EmptyTableNoScrub ==
    [][/\ (TimelineVariant /\ lastOp' = "load" /\ data'.rows = 0
           /\ TimeAndAltitude(data')) => ~crashed'
       /\ (TimelineVariant /\ Loaded /\ RowCount = 0
           /\ lastOp' \in {"play", "tick", "seek"})
             => (slider'.value = slider.value /\ notes' = <<>> /\ ~crashed')]_vars

\* C18: pause() issued in Playing leaves the timeline Stopped with the index
\* unchanged, and while Stopped the index changes only by a seek or a load,
\* never by a tick.
C18_PauseStopsTicks ==
    [][/\ (TimelineVariant /\ Playing /\ lastOp' = "pause")
             => (~timerActive' /\ slider'.value = slider.value)
       /\ (TimelineVariant /\ ~Playing /\ slider'.value # slider.value)
             => lastOp' \in {"seek", "load"}]_vars

\* C18 witness: playback was paused in the middle of the table
C18_Witness ==
    /\ variant = "Full" /\ Loaded /\ lastOp = "pause" /\ ~Playing
    /\ Index >= 1 /\ Index < RowCount - 1

\* Playback on its own: the dashboards that have a timer, loading tables
\* that have time and altitude columns (with and without a GPS track); the
\* timer fires again and again while it is active
PlaybackColumnLists == { <<cTimeS, cAltM>>, <<cTimeS, cAltM, cLat, cLon>> }

PlaybackTables == [cols : PlaybackColumnLists, rows : 0..MaxRows]

PlaybackInit == Init /\ TimelineVariant

PlaybackNext ==
    \/ \E t \in PlaybackTables : V9Load(t)
    \/ V9Play
    \/ V9Pause
    \/ V9Tick
    \/ \E i \in SeekInputs : V9Seek(i)
    \/ \E t \in PlaybackTables : FullLoad(t)
    \/ FullTogglePlayback
    \/ FullTick
    \/ \E i \in SeekInputs : FullSeek(i)
    \/ \E sel \in SUBSET (1..5) : FullPlot(sel)

PlaybackSpec ==
    PlaybackInit /\ [][PlaybackNext]_vars /\ WF_vars(V9Tick) /\ WF_vars(FullTick)

\* C19: a timeline that is Playing becomes Stopped unless a seek, pause,
\* play, plot or reload intervenes, and no tick moves the index to an
\* earlier row.
C19_PlaybackTerminates ==
    /\ [](Playing => <>(~Playing \/ lastOp # "tick"))
    /\ [][TickStep => slider'.value >= slider.value]_vars

\* C19 witness: playback ran over the table and stopped by itself
C19_Witness ==
    /\ TimelineVariant /\ Loaded /\ lastOp = "tick" /\ ~Playing
    /\ hist.ticks >= 2

\* C20: a tick either increases the index by exactly 1, notifying exactly
\* that index, or leaves the index unchanged and notifies nothing.
C20_TickAdvancesByOne ==
    [][(TimelineVariant /\ lastOp' = "tick") =>
          \/ (slider'.value = slider.value /\ notes' = <<>>)
          \/ (slider'.value = slider.value + 1 /\ Len(notes') = 1
              /\ notes'[1].index = slider.value + 1)]_vars

\* C20 witness: two consecutive ticks notified rows 1 and 2
C20_Witness ==
    /\ TimelineVariant /\ Loaded /\ lastOp = "tick" /\ Playing
    /\ hist.ticks = 2 /\ Index = 2
    /\ Len(notes) = 1 /\ notes[1].index = 2

\* the rows (from 0) whose altitude exceeds min(altitude) + LANDING_MARGIN
Airborne(a) ==
    {i \in 0..(Len(a) - 1) :
        a[i + 1] > SetMin({a[k] : k \in 1..Len(a)}) + LandingMargin}

\* C21: Landed is the row one past the last row whose altitude exceeds
\* min(altitude) + LANDING_MARGIN, clamped to len-1 (row 7 for the
\* nine-sample flight, whose last such row is 6).
C21_LandedOnePastLastAirborne ==
    (phases.status = "ok" /\ Airborne(series.altitude) # {}) =>
        phases.index["Landed"] =
            Min2(SetMax(Airborne(series.altitude)) + 1, Len(series.altitude) - 1)

\* C22: Apogee is the row of the maximum altitude, the first one when the
\* maximum occurs at several rows; row 4 for the nine-sample flight.
C22_ApogeeFirstMaximum ==
    phases.status = "ok" =>
        LET a == series.altitude
            k == phases.index["Apogee"]
        IN /\ \A j \in 1..Len(a) : a[j] <= a[k + 1]
           /\ \A j \in 1..k : a[j] < a[k + 1]
           /\ a = ExampleAltitude => k = 4

\* C22 witness: the maximum occurs at several rows, the first not at row 0
C22_Witness ==
    /\ phases.status = "ok"
    /\ phases.index["Apogee"] >= 1
    /\ \E j \in 1..Len(series.altitude) :
          /\ j > phases.index["Apogee"] + 1
          /\ series.altitude[j] = series.altitude[phases.index["Apogee"] + 1]

\* the vertical rate at row i is above the boost / below the descent threshold
Climbing(sr, i) ==
    FracGt(VelNum(sr.altitude, i), VelDen(sr.time, sr.altitude, i), BoostThreshold)
Falling(sr, i) ==
    FracLt(VelNum(sr.altitude, i), VelDen(sr.time, sr.altitude, i), DescentThreshold)

\* C23: Boost is the first row whose vertical rate exceeds 5, and 0 when
\* there is none; Descent is the first row at or after Apogee whose rate is
\* below -2, and Apogee when there is none.
C23_BoostAndDescentFirstCrossing ==
    phases.status = "ok" =>
        LET n == Len(series.altitude)
            b == phases.index["Boost"]
            ap == phases.index["Apogee"]
            d == phases.index["Descent"]
        IN /\ IF \E i \in 0..(n - 1) : Climbing(series, i)
              THEN Climbing(series, b) /\ \A i \in 0..(b - 1) : ~Climbing(series, i)
              ELSE b = 0
           /\ IF \E i \in ap..(n - 1) : Falling(series, i)
              THEN /\ d >= ap /\ Falling(series, d)
                   /\ \A i \in ap..(d - 1) : ~Falling(series, i)
              ELSE d = ap

\* C23 witness: both thresholds are crossed after the first candidate row
C23_Witness ==
    /\ phases.status = "ok"
    /\ phases.index["Boost"] >= 1
    /\ phases.index["Descent"] > phases.index["Apogee"]

\* the name contains "vel" or "speed"
IsVelocityName(c) == Contains(kVel, Lower(c)) \/ Contains(kSpeed, Lower(c))
IsVelocityNameOf == [c \in ColumnNames |-> IsVelocityName(c)]

\* C24: a column whose lower-cased name contains "vel" or "speed" and that
\* is not a Time column is classified Velocity.
C24_VelocityRule ==
    (lastOp = "load" /\ ~crashed) =>
        \A c \in ColSet(data) :
            (IsVelocityNameOf[c] /\ ~IsTimeNameOf[c]) =>
                /\ variant = "Full" => FullBranchOf[c] = "vel"
                /\ variant = "V3" => V3CategoryOf[c] = "Velocity"

\* C25: the views are notified only when the index actually changed: no
\* operation notifies a view and leaves the index at its previous value.
C25_NotifyOnlyOnChange ==
    [][notes' # <<>> => slider'.value # slider.value]_vars

\* C28: between operations every view shows the row of the current scrub
\* index: each graph cursor and dot, the GPS marker and the readout (when
\* it shows a row at all).
C28_ViewsShowCurrentIndex ==
    (Loaded /\ RowCount >= 1) =>
        /\ variant = "V9" =>
              /\ \A k \in 1..Len(cards) : cards[k].row = Index
              /\ gps # NoGps => gps.row = Index
        /\ (variant \in {"Full", "V5b"} /\ current_ax) =>
              /\ cursor_line = Index
              /\ telemetry # NoRow => telemetry = Index
              /\ \A k \in 1..Len(dots) : dots[k].row = Index

\* C29: a notification updates the GPS map only when the table now loaded
\* has latitude and longitude columns; a map built for an earlier table is
\* not updated from that table's arrays.
C29_NoStaleViewUpdated ==
    [][(variant = "V9" /\ lastOp' \in {"seek", "tick"} /\ gps'.row # gps.row)
          => /\ V9DetectOf[data'.cols].lat # None
             /\ V9DetectOf[data'.cols].lon # None]_vars

Transpose(M) == [i \in 1..3 |-> [j \in 1..3 |-> M[j][i]]]

Identity3 == << <<1, 0, 0>>, <<0, 1, 0>>, <<0, 0, 1>> >>

Det(M) ==
    M[1][1] * (M[2][2] * M[3][3] - M[2][3] * M[3][2])
    - M[1][2] * (M[2][1] * M[3][3] - M[2][3] * M[3][1])
    + M[1][3] * (M[2][1] * M[3][2] - M[2][2] * M[3][1])

\* the indicators that have drawn the sample
Drawn == {v \in DOMAIN att.out : att.out[v] # NoResult}

\* C26: the rotation matrix R every indicator builds is orthonormal (R
\* transposed times R is the identity) and has determinant 1, for all
\* roll, pitch and yaw that are multiples of a quarter turn.
C26_RotationOrthonormal ==
    \A v \in Drawn :
        /\ MatMul(Transpose(att.out[v].R), att.out[v].R) = Identity3
        /\ Det(att.out[v].R) = 1

\* C26 witness: the three indicators have drawn a sample that turns about
\* all three axes
C26_Witness ==
    /\ Drawn = AttVariants
    /\ att.roll = 90 /\ att.pitch = -90 /\ att.yaw = 270

\* the elementary rotations by d degrees about the x, y and z axis
ElemRx(d) ==
    LET a == radians(FromTable(d))
    IN << <<1, 0, 0>>, <<0, cos(a), -sin(a)>>, <<0, sin(a), cos(a)>> >>
ElemRy(d) ==
    LET a == radians(FromTable(d))
    IN << <<cos(a), 0, sin(a)>>, <<0, 1, 0>>, <<-sin(a), 0, cos(a)>> >>
ElemRz(d) ==
    LET a == radians(FromTable(d))
    IN << <<cos(a), -sin(a), 0>>, <<sin(a), cos(a), 0>>, <<0, 0, 1>> >>

\* C27: for one roll, pitch, yaw sample in degrees V10 rotation_matrix, V11
\* rotation and V12b update (with its caller) build the same matrix
\* Rz(yaw) * Ry(pitch) * Rx(roll), roll applied first, and every angle that
\* reaches a trigonometric function was converted to radians exactly once.
C27_SameMatrixConvertedOnce ==
    \A v \in Drawn :
        /\ att.out[v].R =
              MatMul(ElemRz(att.yaw),
                     MatMul(ElemRy(att.pitch), ElemRx(att.roll)))
        /\ att.out[v].trig =
              <<radians(FromTable(att.roll)), radians(FromTable(att.pitch)),
                radians(FromTable(att.yaw))>>
        /\ \A k \in 1..3 : att.out[v].trig[k].k = 1

\* C27 witness: the three indicators have drawn a sample for which the
\* order of the factors matters
C27_Witness ==
    /\ Drawn = AttVariants
    /\ att.roll = 90 /\ att.pitch = 90 /\ att.yaw = 0
    /\ MatMul(ElemRx(att.roll), ElemRy(att.pitch))
          # MatMul(ElemRy(att.pitch), ElemRx(att.roll))

\* num/den lies in [0, 1]
InUnitRange(f) == ~FracLt(f.num, f.den, 0) /\ ~FracGt(f.num, f.den, 1)

\* C30: for every row of every velocity column the velocity ratio that
\* slider_moved passes to the gauges lies in [0, 1], so that the red and
\* green channels set_value computes stay within 0..255, and the fill_ratio
\* of a gauge is within [0, 1].
C30_VelocityRatioAndFillBounded ==
    hud.stage = "shown" =>
        /\ InUnitRange(hud.v_ratio)
        /\ \A g \in {hud.alt_gauge, hud.vel_gauge} :
              /\ g.display_color[1] \in 0..255
              /\ g.display_color[2] \in 0..255
              /\ InUnitRange(g.fill_ratio)

====
